---- MODULE Spec2Model ----
(***************************************************************************)
(* Model of MongoDBSessionService                                          *)
(* (src/extlib/custom_mongodb_session_service.py): the four collections    *)
(* (sessions, events, app_states, user_states), the in-memory Session      *)
(* handles of the callers, and the operations create_session, get_session, *)
(* list_sessions, delete_session, append_event and list_events.            *)
(*                                                                         *)
(* Time is counted in half-milliseconds.  A datetime written to MongoDB is *)
(* kept with millisecond precision, and is read back as a naive datetime   *)
(* holding UTC wall-clock fields (MongoClient is built without tz_aware).  *)
(* A transaction of the store reads from the snapshot taken at its first   *)
(* read and fails with a write conflict when it writes a document that     *)
(* another transaction committed after that snapshot.                      *)
(***************************************************************************)
EXTENDS Integers, Sequences, FiniteSets, TLC

VARIABLES
    sessions,     \* sessions collection:    session _id -> document
    events,       \* events collection:      documents in insertion order
    app_states,   \* app_states collection:  app_name -> state map
    user_states,  \* user_states collection: <<app_name, user_id>> -> state map
    handles,      \* the callers' in-memory Session objects
    txn,          \* per calling thread: the append_event call in progress
    now,          \* the wall clock (UTC), in half-milliseconds
    tz,           \* UTC offset of the server's local time zone
    res,          \* the call (or step of a call) just made and its outcome
    calls         \* per calling thread: its last finished append_event call

vars == <<sessions, events, app_states, user_states, handles, txn, now, tz, res, calls>>

store == <<sessions, events, app_states, user_states>>

----------------------------------------------------------------------------
(* Bounds of the model                                                     *)

MaxTime == 4        \* clock readings of a run of Spec (a create or an append reads one)
MaxTimeTwo == 4     \* clock readings of a run of SpecTwo
MaxTimeConc == 3    \* clock readings of a run of SpecConc
MaxTimeShared == 5  \* clock readings of a run of SpecShared
MaxEvents == 3      \* event documents in the events collection
MaxTs == 4          \* largest event timestamp a caller supplies
MaxRecent == 2      \* largest num_recent_events a caller asks for

SubMs == 2          \* half-milliseconds per millisecond (BSON dates keep ms)

Apps == {"a1", "a2"}
Users == {"u1", "u2"}
SessionIds == {"s1", "s2"}
EventIds == 1..MaxEvents
Handles == {"h1", "h2", "h3"}
Procs == {"p1", "p2"}
Values == {1, 2}
Names == {"k"}

\* Offsets of local time from UTC that a deployment can have: west of
\* Greenwich, UTC, east of Greenwich.  An offset is hours, longer than any
\* run of the model.
TzShift == SubMs * (MaxTime + MaxTimeTwo + MaxTs)
LocalOffsets == {0 - TzShift, 0, TzShift}

----------------------------------------------------------------------------
(* State keys.  A key is a string; it is modelled as the sequence of its   *)
(* tokens, a reserved prefix being one token.                              *)

APP_PREFIX == "app:"
USER_PREFIX == "user:"
TEMP_PREFIX == "temp:"

startswith(key, prefix) == Len(key) >= 1 /\ key[1] = prefix
removeprefix(key, prefix) == IF startswith(key, prefix) THEN Tail(key) ELSE key

FlatKeys ==
    {<<n>> : n \in Names}
    \cup {<<p, n>> : p \in {APP_PREFIX, USER_PREFIX, TEMP_PREFIX}, n \in Names}

\* dict.update
DictUpdate(d, delta) ==
    [k \in DOMAIN d \cup DOMAIN delta |->
        IF k \in DOMAIN delta THEN delta[k] ELSE d[k]]

EmptyDict == [k \in {} |-> 0]

\* A split that leaves the prefix on the keys of a tier.
TierDelta_keeps_prefix(state, prefix) ==
    [k \in {g \in DOMAIN state : startswith(g, prefix)} |-> state[k]]

\* _extract_state_delta: one tier of the split.
TierDelta(state, prefix) ==
    [k \in {removeprefix(f, prefix) : f \in {g \in DOMAIN state : startswith(g, prefix)}}
        |-> state[<<prefix>> \o k]]

\* A split that keeps the temporary-prefixed keys in the session tier.
SessionDelta_keeps_temp(state) ==
    [k \in {f \in DOMAIN state :
                /\ ~startswith(f, APP_PREFIX)
                /\ ~startswith(f, USER_PREFIX)} |-> state[k]]

SessionDelta(state) ==
    [k \in {f \in DOMAIN state :
                /\ ~startswith(f, APP_PREFIX)
                /\ ~startswith(f, USER_PREFIX)
                /\ ~startswith(f, TEMP_PREFIX)} |-> state[k]]

_extract_state_delta(state) ==
    [app |-> TierDelta(state, APP_PREFIX),
     user |-> TierDelta(state, USER_PREFIX),
     session |-> SessionDelta(state)]

\* _merge_state: the session keys, then app keys and user keys re-prefixed.
Prefixed(state, prefix) ==
    [k \in {<<prefix>> \o f : f \in DOMAIN state} |-> state[Tail(k)]]

_merge_state(app_state, user_state, session_state) ==
    DictUpdate(DictUpdate(session_state, Prefixed(app_state, APP_PREFIX)),
               Prefixed(user_state, USER_PREFIX))

----------------------------------------------------------------------------
(* Datetimes                                                               *)

\* What the store keeps of a datetime: milliseconds, the rest cut off.
TruncMs(t) == (t \div SubMs) * SubMs

\* datetime.fromtimestamp(ts): naive local wall-clock time.  The driver
\* stores a naive datetime as if its fields were UTC.
fromtimestamp(ts) == ts + tz

\* naive.timestamp(): the naive fields read as local wall-clock time.
NaiveTimestamp(dt) == dt - tz

\* naive.replace(tzinfo=timezone.utc).timestamp()
UtcTimestamp(dt) == dt

----------------------------------------------------------------------------
(* Event content.  A content value has parts; a part with inline_data      *)
(* carries bytes.                                                          *)

NoContent == [present |-> FALSE, parts |-> <<>>]
TextContent == [present |-> TRUE, parts |-> <<[kind |-> "text", form |-> "str", data |-> <<1>>]>>]

BinaryContent(bytes) ==
    [present |-> TRUE,
     parts |-> <<[kind |-> "inline_data", form |-> "bytes", data |-> bytes]>>]

b64encode(bytes) == <<"b64">> \o bytes
b64decode(text) == Tail(text)

\* _encode_content: inline data becomes a one-element tuple holding base64 text.
EncodePart(p) ==
    IF p.kind = "inline_data"
    THEN [p EXCEPT !.form = "tuple", !.data = b64encode(p.data)]
    ELSE p

_encode_content(content) ==
    IF content.parts = <<>>
    THEN content
    ELSE [content EXCEPT !.parts = [i \in DOMAIN content.parts |-> EncodePart(content.parts[i])]]

\* _decode_content: only a tuple is decoded.
DecodePart(p) ==
    IF p.kind = "inline_data" /\ p.form = "tuple"
    THEN [p EXCEPT !.form = "bytes", !.data = b64decode(p.data)]
    ELSE p

_decode_content(content) ==
    IF content.parts = <<>>
    THEN content
    ELSE [content EXCEPT !.parts = [i \in DOMAIN content.parts |-> DecodePart(content.parts[i])]]

\* What the store gives back for a content value written to it: a BSON
\* document has arrays, and an array is read back as a list.
bson(content) ==
    [content EXCEPT !.parts = [i \in DOMAIN content.parts |->
        IF content.parts[i].form = "tuple"
        THEN [content.parts[i] EXCEPT !.form = "list"]
        ELSE content.parts[i]]]

----------------------------------------------------------------------------
(* Documents and in-memory objects                                         *)

NoEvent ==
    [id |-> 0, timestamp |-> 0, partial |-> FALSE, content |-> NoContent,
     state_delta |-> EmptyDict]

NoHandle ==
    [valid |-> FALSE, app_name |-> "", user_id |-> "", id |-> "", last_update_time |-> 0]

NoConfig == [has_after |-> FALSE, after_timestamp |-> 0, num_recent_events |-> 0]

\* The arguments of a get_session call.
NoArgs == [app_name |-> "", user_id |-> "", session_id |-> "", config |-> NoConfig]

IdleTxn ==
    [pc |-> "idle", h |-> "", ev |-> NoEvent, current_time |-> 0, lut0 |-> 0,
     session_state |-> EmptyDict, app_state |-> EmptyDict, user_state |-> EmptyDict,
     dirty |-> {}, args |-> NoArgs, update_time |-> 0, state |-> EmptyDict]

NoCall ==
    [outcome |-> "none", session_id |-> "", h |-> "", lut0 |-> 0, ev |-> NoEvent,
     seen |-> {}]

NoRes ==
    [op |-> "none", outcome |-> "none", h |-> "", app_name |-> "", user_id |-> "",
     session_id |-> "", ev |-> NoEvent, state |-> EmptyDict, config |-> NoConfig,
     n |-> 0, events |-> <<>>]

Put(f, k, v) == [x \in DOMAIN f \cup {k} |-> IF x = k THEN v ELSE f[x]]
Remove(f, k) == [x \in DOMAIN f \ {k} |-> f[x]]

\* find_one on app_states / user_states, "state if doc else {}"
AppState(a) == IF a \in DOMAIN app_states THEN app_states[a] ELSE EmptyDict

\* A user state looked up by user_id alone.
UserState_across_applications(a, u) ==
    IF \E k \in DOMAIN user_states : k[2] = u
    THEN user_states[CHOOSE k \in DOMAIN user_states : k[2] = u]
    ELSE EmptyDict

\* find_one({"_id": {"app_name": app_name, "user_id": user_id}})
UserState(a, u) == IF <<a, u>> \in DOMAIN user_states THEN user_states[<<a, u>>] ELSE EmptyDict

\* A lookup by _id alone.
SessionFound_by_id_only(a, u, sid) == sid \in DOMAIN sessions

\* find_one({"_id": session_id, "app_name": app_name, "user_id": user_id})
SessionFound(a, u, sid) ==
    /\ sid \in DOMAIN sessions
    /\ sessions[sid].app_name = a
    /\ sessions[sid].user_id = u

\* _session_doc_to_obj on a document read from the store.
_session_doc_to_obj(sid) ==
    [valid |-> TRUE,
     app_name |-> sessions[sid].app_name,
     user_id |-> sessions[sid].user_id,
     id |-> sid,
     last_update_time |-> NaiveTimestamp(sessions[sid].update_time)]

\* _event_doc_to_obj
_event_doc_to_obj(doc) ==
    [id |-> doc.id,
     timestamp |-> NaiveTimestamp(doc.timestamp),
     partial |-> doc.partial,
     content |-> _decode_content(doc.content),
     state_delta |-> doc.actions]

----------------------------------------------------------------------------
(* Queries on the events collection                                        *)

EventMatches(doc, a, u, sid) ==
    /\ doc.session_id = sid
    /\ doc.app_name = a
    /\ doc.user_id = u

\* cursor.sort("timestamp", direction): an insertion sort that keeps
\* documents of equal timestamp in the order the collection yields them.
Before(x, y, direction) ==
    IF direction = "ASCENDING" THEN x.timestamp <= y.timestamp
    ELSE x.timestamp >= y.timestamp

RECURSIVE InsertSorted(_, _, _)
InsertSorted(sorted, doc, direction) ==
    IF sorted = <<>> THEN <<doc>>
    ELSE IF Before(Head(sorted), doc, direction)
         THEN <<Head(sorted)>> \o InsertSorted(Tail(sorted), doc, direction)
         ELSE <<doc>> \o sorted

RECURSIVE SortDocs(_, _)
\* A query without its sort: the documents in insertion order.
SortDocs_unsorted(docs, direction) == docs

SortDocs(docs, direction) ==
    IF docs = <<>> THEN <<>>
    ELSE InsertSorted(SortDocs(SubSeq(docs, 1, Len(docs) - 1), direction),
                      docs[Len(docs)], direction)

Limit(docs, n) == SubSeq(docs, 1, IF n < Len(docs) THEN n ELSE Len(docs))

\* A most-recent query that hands the documents back newest first.
Reverse_omitted(docs) == docs

Reverse(docs) == [i \in 1..Len(docs) |-> docs[Len(docs) + 1 - i]]

\* list_events
list_events(a, u, sid) ==
    LET found == SelectSeq(events, LAMBDA d : EventMatches(d, a, u, sid))
        sorted == SortDocs(found, "ASCENDING")
    IN  [i \in 1..Len(sorted) |-> _event_doc_to_obj(sorted[i])]

\* An event query that keeps the newest documents first and filters them
\* by timestamp afterwards.
GetSessionEvents_cap_first(a, u, sid, config) ==
    LET after_dt == TruncMs(fromtimestamp(config.after_timestamp))
        found == SelectSeq(events, LAMBDA d : EventMatches(d, a, u, sid))
        limited == config.num_recent_events > 0
        sorted == SortDocs(found, IF limited THEN "DESCENDING" ELSE "ASCENDING")
        capped == IF limited
                  THEN Reverse(Limit(sorted, config.num_recent_events))
                  ELSE sorted
        event_docs == SelectSeq(capped, LAMBDA d :
                        config.has_after => d.timestamp < after_dt)
    IN  [i \in 1..Len(event_docs) |-> _event_doc_to_obj(event_docs[i])]

\* The event query of get_session.
GetSessionEvents(a, u, sid, config) ==
    LET after_dt == TruncMs(fromtimestamp(config.after_timestamp))
        found == SelectSeq(events, LAMBDA d :
                    /\ EventMatches(d, a, u, sid)
                    /\ (config.has_after => d.timestamp < after_dt))
        limited == config.num_recent_events > 0
        sorted == SortDocs(found, IF limited THEN "DESCENDING" ELSE "ASCENDING")
        event_docs == IF limited
                      THEN Reverse(Limit(sorted, config.num_recent_events))
                      ELSE sorted
    IN  [i \in 1..Len(event_docs) |-> _event_doc_to_obj(event_docs[i])]

\* get_session: what it returns for the store as it is.
get_session(a, u, sid, config) ==
    IF ~SessionFound(a, u, sid)
    THEN [found |-> FALSE, session |-> NoHandle, state |-> EmptyDict, events |-> <<>>]
    ELSE [found |-> TRUE,
          session |-> _session_doc_to_obj(sid),
          state |-> _merge_state(AppState(a), UserState(a, u), sessions[sid].state),
          events |-> GetSessionEvents(a, u, sid, config)]

\* list_sessions: summaries with an empty state.
list_sessions(a, u) ==
    {[app_name |-> sessions[sid].app_name,
      user_id |-> sessions[sid].user_id,
      id |-> sid,
      state |-> EmptyDict,
      last_update_time |-> NaiveTimestamp(sessions[sid].update_time)] :
        sid \in {s \in DOMAIN sessions :
                    sessions[s].app_name = a /\ sessions[s].user_id = u}}

----------------------------------------------------------------------------
(* Transactions of the store                                               *)

\* A Session object is free when no append_event call in progress holds it.
HandleFree(h) == \A p \in Procs : txn[p].pc = "idle" \/ txn[p].h # h

\* No call is in progress.
Quiescent == \A p \in Procs : txn[p].pc = "idle"

InFlight == {p \in Procs : txn[p].pc # "idle"}

\* The documents of transaction t that a commit writing w has changed since
\* t took its snapshot.
Dirtied(t, w) ==
    IF t.pc = "read"
    THEN t.dirty
         \cup (IF handles[t.h].id \in w.sessions THEN {"session"} ELSE {})
         \cup (IF handles[t.h].app_name \in w.apps THEN {"app"} ELSE {})
         \cup (IF <<handles[t.h].app_name, handles[t.h].user_id>> \in w.users
               THEN {"user"} ELSE {})
    ELSE IF t.pc = "creating"
    THEN t.dirty
         \cup (IF t.args.session_id \in w.sessions THEN {"session"} ELSE {})
         \cup (IF t.args.app_name \in w.apps THEN {"app"} ELSE {})
         \cup (IF <<t.args.app_name, t.args.user_id>> \in w.users THEN {"user"} ELSE {})
    ELSE t.dirty

\* A store that lets a transaction overwrite what was committed after its
\* snapshot.
WriteConflict_never(dirty, written) == FALSE

\* A write of the transaction raises the store's write conflict: the
\* document was changed by a commit after the transaction's snapshot.
WriteConflict(dirty, written) == dirty \cap written # {}

\* uuid.uuid4(): an id that no document of the store carries.
UuidPool == {"s2"}

FreshIds ==
    {s \in UuidPool :
        /\ s \notin DOMAIN sessions
        /\ \A i \in DOMAIN events : events[i].session_id # s}

\* An abort that leaves the uncommitted writes in place.
abort_transaction_keeps_writes(before, written) == written

\* abort_transaction: a collection the aborted transaction wrote holds what
\* it held before.
abort_transaction(before, written) == before

----------------------------------------------------------------------------
(* create_session                                                          *)

\* An insert that replaces the document of the same _id.
DuplicateKeyError_never(session_id) == FALSE

\* insert_one on the sessions collection raises DuplicateKeyError.
DuplicateKeyError(session_id) == session_id \in DOMAIN sessions

CreateSession(h, a, u, session_id_arg, state) ==
    /\ HandleFree(h)
    /\ \E session_id \in (IF session_id_arg # "" THEN {session_id_arg} ELSE FreshIds) :
        LET current_time == now
            d == _extract_state_delta(state)
            app_state == DictUpdate(AppState(a), d.app)
            user_state == DictUpdate(UserState(a, u), d.user)
            session_doc == [app_name |-> a, user_id |-> u, state |-> d.session,
                            update_time |-> TruncMs(current_time)]
            w == [sessions |-> {session_id}, apps |-> {a}, users |-> {<<a, u>>}]
        IN  IF DuplicateKeyError(session_id)
            THEN \* abort_transaction, ValueError
                 /\ app_states' = abort_transaction(app_states, Put(app_states, a, app_state))
                 /\ user_states' =
                        abort_transaction(user_states, Put(user_states, <<a, u>>, user_state))
                 /\ res' = [NoRes EXCEPT !.op = "create_session", !.outcome = "conflict",
                                         !.h = h, !.app_name = a, !.user_id = u,
                                         !.session_id = session_id, !.state = state]
                 /\ UNCHANGED <<sessions, events, handles, txn>>
            ELSE /\ app_states' = Put(app_states, a, app_state)
                 /\ user_states' = Put(user_states, <<a, u>>, user_state)
                 /\ sessions' = Put(sessions, session_id, session_doc)
                 /\ handles' = [handles EXCEPT ![h] =
                        [valid |-> TRUE, app_name |-> a, user_id |-> u, id |-> session_id,
                         last_update_time |-> current_time]]
                 /\ txn' = [p \in Procs |-> [txn[p] EXCEPT !.dirty = Dirtied(txn[p], w)]]
                 /\ res' = [NoRes EXCEPT !.op = "create_session", !.outcome = "ok",
                                         !.h = h, !.app_name = a, !.user_id = u,
                                         !.session_id = session_id, !.state = state]
                 /\ UNCHANGED events
    /\ now' = now + 1
    /\ UNCHANGED tz

\* create_session called while other calls are in progress, in two steps:
\* the clock reading and the reads of the transaction; then the upserts,
\* the insert and the commit.
CreateSessionRead(p, h, a, u, session_id, state) ==
    /\ txn[p].pc = "idle"
    /\ HandleFree(h)
    /\ txn' = [txn EXCEPT ![p] =
            [IdleTxn EXCEPT !.pc = "creating", !.h = h,
                            !.args = [app_name |-> a, user_id |-> u,
                                      session_id |-> session_id, config |-> NoConfig],
                            !.state = state,
                            !.current_time = now,
                            !.app_state = AppState(a),
                            !.user_state = UserState(a, u)]]
    /\ now' = now + 1
    /\ res' = [NoRes EXCEPT !.op = "create_session", !.outcome = "begun",
                            !.h = h, !.app_name = a, !.user_id = u,
                            !.session_id = session_id, !.state = state]
    /\ UNCHANGED <<sessions, events, app_states, user_states, handles, tz>>

CreateSessionCommit(p) ==
    LET t == txn[p]
        a == t.args.app_name
        u == t.args.user_id
        session_id == t.args.session_id
        d == _extract_state_delta(t.state)
        app_state == DictUpdate(t.app_state, d.app)
        user_state == DictUpdate(t.user_state, d.user)
        session_doc == [app_name |-> a, user_id |-> u, state |-> d.session,
                        update_time |-> TruncMs(t.current_time)]
        outcome == IF WriteConflict(t.dirty, {"app", "user"}) THEN "write_conflict"
                   ELSE IF DuplicateKeyError(session_id) THEN "conflict" ELSE "ok"
        w == [sessions |-> {session_id}, apps |-> {a}, users |-> {<<a, u>>}]
    IN  /\ t.pc = "creating"
        /\ IF outcome # "ok"
           THEN /\ app_states' = abort_transaction(app_states, Put(app_states, a, app_state))
                /\ user_states' =
                        abort_transaction(user_states, Put(user_states, <<a, u>>, user_state))
                /\ txn' = [txn EXCEPT ![p] = IdleTxn]
                /\ UNCHANGED <<sessions, handles>>
           ELSE /\ app_states' = Put(app_states, a, app_state)
                /\ user_states' = Put(user_states, <<a, u>>, user_state)
                /\ sessions' = Put(sessions, session_id, session_doc)
                /\ handles' = [handles EXCEPT ![t.h] =
                        [valid |-> TRUE, app_name |-> a, user_id |-> u, id |-> session_id,
                         last_update_time |-> t.current_time]]
                /\ txn' = [q \in Procs |->
                        IF q = p THEN IdleTxn
                        ELSE [txn[q] EXCEPT !.dirty = Dirtied(txn[q], w)]]
        /\ res' = [NoRes EXCEPT !.op = "create_session", !.outcome = outcome,
                                !.h = t.h, !.app_name = a, !.user_id = u,
                                !.session_id = session_id, !.state = t.state]
        /\ UNCHANGED <<events, now, tz>>

----------------------------------------------------------------------------
(* get_session, list_sessions, list_events                                 *)

GetSession(h, a, u, sid, config) ==
    /\ HandleFree(h)
    /\ LET r == get_session(a, u, sid, config)
       IN  /\ handles' = IF r.found THEN [handles EXCEPT ![h] = r.session] ELSE handles
           /\ res' = [NoRes EXCEPT !.op = "get_session",
                                   !.outcome = IF r.found THEN "ok" ELSE "absent",
                                   !.h = h, !.app_name = a, !.user_id = u,
                                   !.session_id = sid, !.config = config]
    /\ UNCHANGED <<sessions, events, app_states, user_states, txn, now, tz>>

\* get_session called while other calls are in progress, in two steps: the
\* read of the session document, then the reads of the application state,
\* the user state and the events, which build the Session returned.  No
\* transaction holds the reads together.
GetSessionFind(p, h, a, u, sid, config) ==
    /\ txn[p].pc = "idle"
    /\ IF ~SessionFound(a, u, sid)
       THEN /\ res' = [NoRes EXCEPT !.op = "get_session", !.outcome = "absent",
                                    !.h = h, !.app_name = a, !.user_id = u,
                                    !.session_id = sid, !.config = config]
            /\ UNCHANGED txn
       ELSE /\ txn' = [txn EXCEPT ![p] =
                    [IdleTxn EXCEPT !.pc = "found", !.h = h,
                                    !.args = [app_name |-> a, user_id |-> u,
                                              session_id |-> sid, config |-> config],
                                    !.session_state = sessions[sid].state,
                                    !.update_time = sessions[sid].update_time]]
            /\ res' = [NoRes EXCEPT !.op = "get_session", !.outcome = "found",
                                    !.h = h, !.app_name = a, !.user_id = u,
                                    !.session_id = sid, !.config = config]
    /\ UNCHANGED <<sessions, events, app_states, user_states, handles, now, tz>>

GetSessionFetch(p) ==
    LET t == txn[p]
        a == t.args.app_name
        u == t.args.user_id
        sid == t.args.session_id
        merged_state == _merge_state(AppState(a), UserState(a, u), t.session_state)
    IN  /\ t.pc = "found"
        /\ handles' = [handles EXCEPT ![t.h] =
                [valid |-> TRUE, app_name |-> a, user_id |-> u, id |-> sid,
                 last_update_time |-> NaiveTimestamp(t.update_time)]]
        /\ res' = [NoRes EXCEPT !.op = "get_session", !.outcome = "ok",
                                !.h = t.h, !.app_name = a, !.user_id = u,
                                !.session_id = sid, !.config = t.args.config,
                                !.state = merged_state,
                                !.events = GetSessionEvents(a, u, sid, t.args.config)]
        /\ txn' = [txn EXCEPT ![p] = IdleTxn]
        /\ UNCHANGED <<sessions, events, app_states, user_states, now, tz>>

ListSessions(a, u) ==
    /\ res' = [NoRes EXCEPT !.op = "list_sessions", !.outcome = "ok",
                            !.app_name = a, !.user_id = u]
    /\ UNCHANGED <<sessions, events, app_states, user_states, handles, txn, now, tz>>

ListEvents(a, u, sid) ==
    /\ res' = [NoRes EXCEPT !.op = "list_events", !.outcome = "ok",
                            !.app_name = a, !.user_id = u, !.session_id = sid]
    /\ UNCHANGED <<sessions, events, app_states, user_states, handles, txn, now, tz>>

----------------------------------------------------------------------------
(* delete_session                                                          *)

\* A delete that leaves the events of the session behind.
EventsAfterDelete_keeps_events(a, u, sid) == events

\* delete_many on the events collection: the documents left.
EventsAfterDelete(a, u, sid) ==
    SelectSeq(events, LAMBDA d : ~EventMatches(d, a, u, sid))

\* A delete that also drops the state record of the session's user.
DeleteSession_drops_user_state(a, u, sid) ==
    LET deleted == SessionFound(a, u, sid)
        w == [sessions |-> IF deleted THEN {sid} ELSE {}, apps |-> {}, users |-> {}]
    IN  /\ sessions' = IF deleted THEN Remove(sessions, sid) ELSE sessions
        /\ events' = EventsAfterDelete(a, u, sid)
        /\ user_states' = IF deleted THEN Remove(user_states, <<a, u>>) ELSE user_states
        /\ txn' = [p \in Procs |-> [txn[p] EXCEPT !.dirty = Dirtied(txn[p], w)]]
        /\ res' = [NoRes EXCEPT !.op = "delete_session",
                                !.outcome = IF deleted THEN "ok" ELSE "not_found_logged",
                                !.app_name = a, !.user_id = u, !.session_id = sid,
                                !.n = Len(events) - Len(EventsAfterDelete(a, u, sid))]
        /\ UNCHANGED <<app_states, handles, now, tz>>

DeleteSession(a, u, sid) ==
    LET deleted == SessionFound(a, u, sid)
        w == [sessions |-> IF deleted THEN {sid} ELSE {}, apps |-> {}, users |-> {}]
    IN  /\ sessions' = IF deleted THEN Remove(sessions, sid) ELSE sessions
        /\ events' = EventsAfterDelete(a, u, sid)
        /\ txn' = [p \in Procs |-> [txn[p] EXCEPT !.dirty = Dirtied(txn[p], w)]]
        /\ res' = [NoRes EXCEPT !.op = "delete_session",
                                !.outcome = IF deleted THEN "ok" ELSE "not_found_logged",
                                !.app_name = a, !.user_id = u, !.session_id = sid,
                                !.n = Len(events) - Len(EventsAfterDelete(a, u, sid))]
        /\ UNCHANGED <<app_states, user_states, handles, now, tz>>

----------------------------------------------------------------------------
(* The session argument of append_event: a Session object that the caller  *)
(* filled in itself, with the current time as its last_update_time.        *)

MakeSession(h, a, u, sid) ==
    /\ HandleFree(h)
    /\ handles' = [handles EXCEPT ![h] =
            [valid |-> TRUE, app_name |-> a, user_id |-> u, id |-> sid,
             last_update_time |-> now]]
    /\ res' = [NoRes EXCEPT !.op = "make_session", !.outcome = "ok", !.h = h,
                            !.app_name = a, !.user_id = u, !.session_id = sid]
    /\ UNCHANGED <<sessions, events, app_states, user_states, txn, now, tz>>

----------------------------------------------------------------------------
(* append_event, in three steps: the early returns and the clock reading;  *)
(* the reads of the transaction with the not-found and stale checks; the   *)
(* writes with the commit and the refresh of the caller's Session object.  *)

AppendRes(h, ev, outcome) ==
    [NoRes EXCEPT !.op = "append_event", !.outcome = outcome, !.h = h, !.ev = ev,
                  !.app_name = handles[h].app_name, !.user_id = handles[h].user_id,
                  !.session_id = handles[h].id]

\* An early return for missing content only.
Skipped_content_only(ev) == ~ev.content.present

\* Lines 380-385: not persisted.
Skipped(ev) == ~ev.content.present \/ ev.partial

AppendBegin(p, h, ev) ==
    /\ txn[p].pc = "idle"
    /\ handles[h].valid
    /\ IF Skipped(ev)
       THEN /\ res' = AppendRes(h, ev, "skipped")
            /\ UNCHANGED <<txn, now>>
       ELSE /\ Len(events) + Cardinality(InFlight) < MaxEvents
            /\ txn' = [txn EXCEPT ![p] =
                    [IdleTxn EXCEPT !.pc = "begun", !.h = h, !.ev = ev,
                                    !.current_time = now,
                                    !.lut0 = handles[h].last_update_time]]
            /\ now' = now + 1
            /\ res' = AppendRes(h, ev, "begun")
    /\ UNCHANGED <<sessions, events, app_states, user_states, handles, tz>>

\* A check that rejects the caller who is ahead of the store.
IsStale_reversed(db_update_timestamp, last_update_time) ==
    db_update_timestamp < last_update_time

\* Line 402: the optimistic-concurrency check.
IsStale(db_update_timestamp, last_update_time) ==
    db_update_timestamp > last_update_time

\* Reads that go on to the writes when the session document is missing.
AppendRead_without_not_found(p) ==
    LET t == txn[p]
        s == handles[t.h]
        found == SessionFound(s.app_name, s.user_id, s.id)
    IN  /\ t.pc = "begun"
        /\ IF found /\ IsStale(UtcTimestamp(sessions[s.id].update_time), s.last_update_time)
           THEN /\ txn' = [txn EXCEPT ![p] = IdleTxn]
                /\ res' = AppendRes(t.h, t.ev, "stale")
           ELSE /\ txn' = [txn EXCEPT ![p] =
                        [t EXCEPT !.pc = "read",
                                  !.session_state =
                                        IF found THEN sessions[s.id].state ELSE EmptyDict,
                                  !.app_state = AppState(s.app_name),
                                  !.user_state = UserState(s.app_name, s.user_id),
                                  !.dirty = {}]]
                /\ res' = AppendRes(t.h, t.ev, "read")
        /\ UNCHANGED <<sessions, events, app_states, user_states, handles, now, tz>>

AppendRead(p) ==
    LET t == txn[p]
        s == handles[t.h]
    IN  /\ t.pc = "begun"
        /\ IF ~SessionFound(s.app_name, s.user_id, s.id)
           THEN /\ txn' = [txn EXCEPT ![p] = IdleTxn]
                /\ res' = AppendRes(t.h, t.ev, "not_found")
           ELSE IF IsStale(UtcTimestamp(sessions[s.id].update_time), s.last_update_time)
           THEN /\ txn' = [txn EXCEPT ![p] = IdleTxn]
                /\ res' = AppendRes(t.h, t.ev, "stale")
           ELSE /\ txn' = [txn EXCEPT ![p] =
                        [t EXCEPT !.pc = "read",
                                  !.session_state = sessions[s.id].state,
                                  !.app_state = AppState(s.app_name),
                                  !.user_state = UserState(s.app_name, s.user_id),
                                  !.dirty = {}]]
                /\ res' = AppendRes(t.h, t.ev, "read")
        /\ UNCHANGED <<sessions, events, app_states, user_states, handles, now, tz>>

NoDelta == [app |-> EmptyDict, user |-> EmptyDict, session |-> EmptyDict]

\* An append that splits the delta of no event.
EventDeltas_ignored(ev) == NoDelta

\* Lines 414-420: the deltas of the event.
EventDeltas(ev) ==
    IF ev.state_delta # EmptyDict THEN _extract_state_delta(ev.state_delta) ELSE NoDelta

\* Line 446: the session document is written when any delta is non-empty.
UpdatesSession(d) ==
    d.session # EmptyDict \/ d.app # EmptyDict \/ d.user # EmptyDict

\* The documents that the update_one calls of lines 427-451 write.
Written(d) ==
    (IF d.app # EmptyDict THEN {"app"} ELSE {})
    \cup (IF d.user # EmptyDict THEN {"user"} ELSE {})
    \cup (IF UpdatesSession(d) THEN {"session"} ELSE {})

\* Lines 455-474: the event document.
EventDoc(s, ev) ==
    [id |-> ev.id,
     session_id |-> s.id,
     app_name |-> s.app_name,
     user_id |-> s.user_id,
     timestamp |-> TruncMs(fromtimestamp(ev.timestamp)),
     partial |-> ev.partial,
     actions |-> ev.state_delta,
     content |-> bson(_encode_content(ev.content))]

\* A commit that leaves the caller's Session object as it was.
Refreshed_never(session, current_time) == session

\* Line 481: session.last_update_time = current_time.timestamp()
Refreshed(session, current_time) ==
    [session EXCEPT !.last_update_time = current_time]

AppendCommit(p) ==
    LET t == txn[p]
        s == handles[t.h]
        d == EventDeltas(t.ev)
        write_conflict == WriteConflict(t.dirty, Written(d))
        duplicate == \E i \in DOMAIN events : events[i].id = t.ev.id
        outcome == IF write_conflict THEN "write_conflict"
                   ELSE IF duplicate THEN "duplicate" ELSE "ok"
        w == [sessions |-> IF UpdatesSession(d) THEN {s.id} ELSE {},
              apps |-> IF d.app # EmptyDict THEN {s.app_name} ELSE {},
              users |-> IF d.user # EmptyDict THEN {<<s.app_name, s.user_id>>} ELSE {}]
        \* update_one on app_states, user_states and sessions
        app_written ==
            IF d.app # EmptyDict
            THEN Put(app_states, s.app_name, DictUpdate(t.app_state, d.app))
            ELSE app_states
        user_written ==
            IF d.user # EmptyDict
            THEN Put(user_states, <<s.app_name, s.user_id>>, DictUpdate(t.user_state, d.user))
            ELSE user_states
        sessions_written ==
            IF UpdatesSession(d) /\ s.id \in DOMAIN sessions
            THEN [sessions EXCEPT ![s.id] =
                    [@ EXCEPT !.state = DictUpdate(t.session_state, d.session),
                              !.update_time = TruncMs(t.current_time)]]
            ELSE sessions
    IN  /\ t.pc = "read"
        /\ IF outcome # "ok"
           THEN \* the except clause: abort_transaction, raise
                /\ app_states' = abort_transaction(app_states, app_written)
                /\ user_states' = abort_transaction(user_states, user_written)
                /\ sessions' = abort_transaction(sessions, sessions_written)
                /\ txn' = [txn EXCEPT ![p] = IdleTxn]
                /\ UNCHANGED <<events, handles>>
           ELSE /\ app_states' = app_written
                /\ user_states' = user_written
                /\ sessions' = sessions_written
                /\ events' = Append(events, EventDoc(s, t.ev))
                /\ handles' = [handles EXCEPT ![t.h] = Refreshed(s, t.current_time)]
                /\ txn' = [q \in Procs |->
                        IF q = p THEN IdleTxn
                        ELSE [txn[q] EXCEPT !.dirty = Dirtied(txn[q], w)]]
        /\ res' = AppendRes(t.h, t.ev, outcome)
        /\ UNCHANGED <<now, tz>>

----------------------------------------------------------------------------
(* Specifications                                                          *)

InitStore ==
    /\ sessions = EmptyDict
    /\ events = <<>>
    /\ app_states = EmptyDict
    /\ user_states = EmptyDict
    /\ handles = [h \in Handles |-> NoHandle]
    /\ txn = [p \in Procs |-> IdleTxn]
    /\ now = 0
    /\ res = NoRes
    /\ calls = [p \in Procs |-> NoCall]

\* A server whose local time is UTC.
Init == InitStore /\ tz = 0

\* A server in any time zone.
InitAnyZone == InitStore /\ tz \in LocalOffsets

\* The events a caller appends: persisted ones, and ones append_event skips.
Persistable(ids, timestamps, deltas) ==
    [id : ids, timestamp : timestamps, partial : {FALSE}, content : {TextContent},
     state_delta : deltas]

NotPersisted(ids, timestamps, deltas) ==
    {ev \in [id : ids, timestamp : timestamps, partial : BOOLEAN,
             content : {NoContent, TextContent}, state_delta : deltas] :
        ev.partial \/ ev.content = NoContent}

\* State maps with value v: no key, one key of the application tier, one
\* key of the user tier, a key of every kind.
AppOnly(v) == [k \in {<<APP_PREFIX, "k">>} |-> v]
UserOnly(v) == [k \in {<<USER_PREFIX, "k">>} |-> v]
AllKeys(v) == [k \in FlatKeys |-> v]
SomeMaps(v) == {EmptyDict, AppOnly(v), AllKeys(v)}

TierEvents ==
    Persistable({1, 2}, {0}, {EmptyDict, AllKeys(2)})
    \cup NotPersisted({1}, {0}, {AllKeys(2)})

\* The last finished append_event call of every thread.
Observe ==
    calls' = [p \in Procs |->
        IF txn[p].pc # "idle" /\ txn'[p].pc = "idle"
        THEN [NoCall EXCEPT !.outcome = res'.outcome, !.session_id = res'.session_id,
                            !.h = txn[p].h, !.lut0 = txn[p].lut0, !.ev = txn[p].ev]
        ELSE calls[p]]

\* The clock has been read at most bound times.
Within(bound) == now' <= bound

\* One session of one user, one call at a time.  One caller creates the
\* session and appends to it, a second one fetches it and appends to it.
Next ==
    \/ \E st \in {EmptyDict, AllKeys(1)} :
            /\ Quiescent /\ CreateSession("h1", "a1", "u1", "s1", st)
            /\ Within(MaxTime) /\ UNCHANGED calls
    \/ Quiescent /\ GetSession("h2", "a1", "u1", "s1", NoConfig) /\ UNCHANGED calls
    \/ Quiescent /\ DeleteSession("a1", "u1", "s1") /\ UNCHANGED calls
    \/ \E h \in {"h1", "h2"}, ev \in TierEvents :
            AppendBegin("p1", h, ev) /\ Within(MaxTime) /\ UNCHANGED calls
    \/ AppendRead("p1") /\ UNCHANGED calls
    \/ AppendCommit("p1") /\ UNCHANGED calls

Spec == Init /\ [][Next]_vars

\* The same calls on a server in any time zone.
SpecZone == InitAnyZone /\ [][Next]_vars

\* Two sessions of one application, of one user or of two, one call at a
\* time: a caller for each session, who creates it and appends to it.
NextTwo ==
    \/ \E st \in {EmptyDict, AllKeys(1)} :
            /\ Quiescent /\ CreateSession("h1", "a1", "u1", "s1", st)
            /\ Within(MaxTimeTwo) /\ UNCHANGED calls
    \/ \E u \in Users, sid \in {"s2", ""}, st \in {EmptyDict, AllKeys(1)} :
            /\ Quiescent /\ CreateSession("h2", "a1", u, sid, st)
            /\ Within(MaxTimeTwo) /\ UNCHANGED calls
    \/ \E h \in {"h1", "h2"}, ev \in Persistable({1, 2}, {0}, SomeMaps(2) \cup {UserOnly(2)}) :
            AppendBegin("p1", h, ev) /\ Within(MaxTimeTwo) /\ UNCHANGED calls
    \/ AppendRead("p1") /\ UNCHANGED calls
    \/ AppendCommit("p1") /\ UNCHANGED calls

SpecTwo == Init /\ [][NextTwo]_vars

\* Two threads, each making one append_event call on the session that one
\* caller created and another fetched, in any interleaving; the second
\* thread uses the Session object of either caller.
NoCallYet == \A p \in Procs : calls[p] = NoCall /\ txn[p].pc = "idle"

ConcEvents(id) ==
    Persistable({id}, {0},
        {EmptyDict, [k \in {<<"k">>} |-> 2], AppOnly(2)})

NextConc ==
    \/ NoCallYet /\ CreateSession("h1", "a1", "u1", "s1", EmptyDict)
            /\ Within(MaxTimeConc) /\ Observe
    \/ NoCallYet /\ GetSession("h2", "a1", "u1", "s1", NoConfig) /\ Observe
    \/ \E ev \in ConcEvents(1) :
            /\ calls["p1"] = NoCall /\ AppendBegin("p1", "h1", ev)
            /\ Within(MaxTimeConc) /\ Observe
    \/ \E h \in {"h1", "h2"}, ev \in ConcEvents(2) :
            /\ calls["p2"] = NoCall /\ AppendBegin("p2", h, ev)
            /\ Within(MaxTimeConc) /\ Observe
    \/ \E p \in Procs : AppendRead(p) /\ Observe
    \/ \E p \in Procs : AppendCommit(p) /\ Observe

SpecConc == Init /\ [][NextConc]_vars

\* Two sessions and their event logs, on a server in any time zone: once
\* both sessions are created, events are appended to them with any
\* timestamps in any order, and listed.
RecentConfigs ==
    {[NoConfig EXCEPT !.num_recent_events = n] : n \in 0..MaxRecent}

\* The caller numbers its events.
NextEventId == {Len(events) + 1}

NextEvents ==
    \/ /\ Quiescent /\ sessions = EmptyDict
       /\ CreateSession("h1", "a1", "u1", "s1", EmptyDict) /\ UNCHANGED calls
    \/ /\ Quiescent /\ DOMAIN sessions = {"s1"}
       /\ CreateSession("h2", "a1", "u1", "s2", EmptyDict) /\ UNCHANGED calls
    \/ \E config \in RecentConfigs :
            Quiescent /\ GetSession("h3", "a1", "u1", "s1", config) /\ UNCHANGED calls
    \/ Quiescent /\ ListEvents("a1", "u1", "s1") /\ UNCHANGED calls
    \/ \E h \in {"h1", "h2"}, ev \in Persistable(NextEventId, 0..MaxTs, {EmptyDict}) :
            /\ DOMAIN sessions = SessionIds
            /\ AppendBegin("p1", h, ev) /\ UNCHANGED calls
    \/ AppendRead("p1") /\ UNCHANGED calls
    \/ AppendCommit("p1") /\ UNCHANGED calls

SpecEvents == InitAnyZone /\ [][NextEvents]_vars

\* What get_session would return at once, for the arguments of the call
\* that thread p has in progress.
Committed(p) ==
    LET r == get_session(txn[p].args.app_name, txn[p].args.user_id,
                         txn[p].args.session_id, txn[p].args.config)
    IN  [found |-> r.found, state |-> r.state, events |-> r.events]

\* For a get_session call in progress: what get_session would have returned
\* at once in each state of the store since the call read the session
\* document.
ObserveReads ==
    calls' = [p \in Procs |->
        IF txn'[p].pc = "found"
        THEN [NoCall EXCEPT !.outcome = "found",
                            !.seen = (IF txn[p].pc = "found" THEN calls[p].seen ELSE {})
                                     \cup {Committed(p)'}]
        ELSE calls[p]]

\* One session with a key in every tier; a thread appends events that
\* change every tier and deletes the session, while another thread fetches
\* the session.
NextRead ==
    \/ /\ now = 0
       /\ CreateSession("h1", "a1", "u1", "s1", AllKeys(1)) /\ ObserveReads
    \/ GetSessionFind("p2", "h2", "a1", "u1", "s1", NoConfig) /\ ObserveReads
    \/ GetSessionFetch("p2") /\ ObserveReads
    \/ \E ev \in Persistable(NextEventId, {0}, {EmptyDict, AllKeys(2)}) :
            AppendBegin("p1", "h1", ev) /\ Within(MaxTimeConc) /\ ObserveReads
    \/ AppendRead("p1") /\ ObserveReads
    \/ AppendCommit("p1") /\ ObserveReads
    \/ txn["p1"].pc = "idle" /\ DeleteSession("a1", "u1", "s1") /\ ObserveReads

SpecRead == Init /\ [][NextRead]_vars

\* Sessions of one or two owners on a server in any time zone, one with
\* state and events, listed for every application and user.
NextList ==
    \/ /\ Quiescent /\ "s1" \notin DOMAIN sessions
       /\ CreateSession("h1", "a1", "u1", "s1", AllKeys(1))
       /\ Within(MaxTimeTwo) /\ UNCHANGED calls
    \/ \E a \in Apps, u \in Users :
            /\ Quiescent /\ "s2" \notin DOMAIN sessions
            /\ CreateSession("h2", a, u, "s2", EmptyDict)
            /\ Within(MaxTimeTwo) /\ UNCHANGED calls
    \/ \E a \in Apps, u \in Users : Quiescent /\ ListSessions(a, u) /\ UNCHANGED calls
    \/ \E ev \in Persistable(NextEventId, {0}, {AllKeys(2)}) :
            AppendBegin("p1", "h1", ev) /\ Within(MaxTimeTwo) /\ UNCHANGED calls
    \/ AppendRead("p1") /\ UNCHANGED calls
    \/ AppendCommit("p1") /\ UNCHANGED calls
    \/ Quiescent /\ DeleteSession("a1", "u1", "s1") /\ UNCHANGED calls

SpecList == InitAnyZone /\ [][NextList]_vars

\* One session to which events with text and with inline binary data are
\* appended, and read back.
ContentEvents ==
    [id : NextEventId, timestamp : {0}, partial : {FALSE},
     content : {TextContent, BinaryContent(<<1>>), BinaryContent(<<1, 2>>)},
     state_delta : {EmptyDict}]

NextContent ==
    \/ /\ Quiescent /\ sessions = EmptyDict
       /\ CreateSession("h1", "a1", "u1", "s1", EmptyDict) /\ UNCHANGED calls
    \/ Quiescent /\ GetSession("h3", "a1", "u1", "s1", NoConfig) /\ UNCHANGED calls
    \/ Quiescent /\ ListEvents("a1", "u1", "s1") /\ UNCHANGED calls
    \/ \E ev \in ContentEvents : AppendBegin("p1", "h1", ev) /\ UNCHANGED calls
    \/ AppendRead("p1") /\ UNCHANGED calls
    \/ AppendCommit("p1") /\ UNCHANGED calls

SpecContent == InitAnyZone /\ [][NextContent]_vars

\* One session whose events, appended with any timestamps in any order,
\* are fetched with an after_timestamp.
\* Values of after_timestamp: inside a millisecond, and on one.
AfterTimestamps == {1, SubMs}

\* Configs with an after_timestamp, alone or with num_recent_events.
AfterConfigs ==
    {[has_after |-> TRUE, after_timestamp |-> t, num_recent_events |-> n] :
        t \in AfterTimestamps, n \in 0..MaxRecent}

NextFilter ==
    \/ /\ Quiescent /\ sessions = EmptyDict
       /\ CreateSession("h1", "a1", "u1", "s1", EmptyDict) /\ UNCHANGED calls
    \/ \E config \in AfterConfigs :
            Quiescent /\ GetSession("h3", "a1", "u1", "s1", config) /\ UNCHANGED calls
    \/ \E ev \in Persistable(NextEventId, 0..MaxTs, {EmptyDict}) :
            AppendBegin("p1", "h1", ev) /\ UNCHANGED calls
    \/ AppendRead("p1") /\ UNCHANGED calls
    \/ AppendCommit("p1") /\ UNCHANGED calls

SpecFilter == Init /\ [][NextFilter]_vars

\* Two sessions of one application and two users, created with and given
\* events with state maps over keys of every kind: plain, with one reserved
\* prefix, and with a reserved prefix after another.
SplitKeys ==
    FlatKeys \cup {<<APP_PREFIX, TEMP_PREFIX, "k">>, <<TEMP_PREFIX, APP_PREFIX, "k">>}

SplitMaps(v) == UNION {[K -> {v}] : K \in SUBSET SplitKeys}

NextSplit ==
    \/ \E st \in SplitMaps(1) :
            /\ Quiescent /\ sessions = EmptyDict
            /\ CreateSession("h1", "a1", "u1", "s1", st) /\ UNCHANGED calls
    \/ /\ Quiescent /\ DOMAIN sessions = {"s1"}
       /\ CreateSession("h2", "a1", "u2", "s2", AllKeys(1)) /\ UNCHANGED calls
    \/ \E h \in {"h1", "h2"}, ev \in Persistable({1}, {0}, SplitMaps(2)) :
            /\ events = <<>>
            /\ AppendBegin("p1", h, ev) /\ UNCHANGED calls
    \/ AppendRead("p1") /\ UNCHANGED calls
    \/ AppendCommit("p1") /\ UNCHANGED calls

SpecSplit == Init /\ [][NextSplit]_vars

\* Two sessions of one application, of one user or of two.  A thread
\* appends to the first session events that write a key of the application
\* state, of the user state, or of both, while another thread creates the
\* second session and appends to it events that write other keys of these
\* states; a call that failed is made again.
AppOther(v) == [k \in {<<APP_PREFIX, "j">>} |-> v]
UserOther(v) == [k \in {<<USER_PREFIX, "j">>} |-> v]
BothOther(v) == [k \in {<<APP_PREFIX, "j">>, <<USER_PREFIX, "j">>} |-> v]
BothShared(v) == [k \in {<<APP_PREFIX, "k">>, <<USER_PREFIX, "k">>} |-> v]

NotYetAppended(id) == \A i \in DOMAIN events : events[i].id # id

NextShared ==
    \/ /\ Quiescent /\ sessions = EmptyDict
       /\ CreateSession("h1", "a1", "u1", "s1", EmptyDict) /\ UNCHANGED calls
    \/ \E u \in Users, st \in {EmptyDict, BothOther(1)} :
            /\ "s1" \in DOMAIN sessions /\ "s2" \notin DOMAIN sessions
            /\ CreateSessionRead("p2", "h2", "a1", u, "s2", st)
            /\ Within(MaxTimeShared) /\ UNCHANGED calls
    \/ CreateSessionCommit("p2") /\ UNCHANGED calls
    \/ \E ev \in Persistable({1}, {0}, {AppOnly(2), UserOnly(2), BothShared(2)}) :
            /\ NotYetAppended(1)
            /\ AppendBegin("p1", "h1", ev) /\ Within(MaxTimeShared) /\ UNCHANGED calls
    \/ \E ev \in Persistable({2}, {0}, {AppOther(3), UserOther(3), BothOther(3)}) :
            /\ NotYetAppended(2)
            /\ AppendBegin("p2", "h2", ev) /\ Within(MaxTimeShared) /\ UNCHANGED calls
    \/ \E p \in Procs : AppendRead(p) /\ UNCHANGED calls
    \/ \E p \in Procs : AppendCommit(p) /\ UNCHANGED calls

SpecShared == Init /\ [][NextShared]_vars

\* One session to which a thread appends events, with a state delta and
\* without, while another caller deletes the session.
NextDelete ==
    \/ /\ now = 0
       /\ CreateSession("h1", "a1", "u1", "s1", AllKeys(1)) /\ UNCHANGED calls
    \/ \E ev \in Persistable(NextEventId, {0}, {EmptyDict, AllKeys(2)}) :
            AppendBegin("p1", "h1", ev) /\ Within(MaxTime) /\ UNCHANGED calls
    \/ AppendRead("p1") /\ UNCHANGED calls
    \/ AppendCommit("p1") /\ UNCHANGED calls
    \/ DeleteSession("a1", "u1", "s1") /\ UNCHANGED calls

SpecDelete == Init /\ [][NextDelete]_vars

\* One session and two writers, each a thread with its own Session object:
\* the first created the session, the second fetches it.  Both append
\* events, with a state delta and without, in any interleaving.
HandleOf(p) == IF p = "p1" THEN "h1" ELSE "h2"

\* The writers draw the ids of their events from a common counter.
UniqueEventId == {now + 1}

\* For every writer: the events with a state delta that the other writer
\* has committed to the session since this writer's Session object was
\* returned by create_session or get_session, or refreshed by its own
\* commit.
ObserveWriters ==
    calls' = [p \in Procs |->
        IF \/ res'.op \in {"create_session", "get_session"} /\ res'.h = HandleOf(p)
           \/ res'.op = "append_event" /\ res'.outcome = "ok" /\ res'.h = HandleOf(p)
        THEN [NoCall EXCEPT !.outcome = res'.outcome, !.h = HandleOf(p)]
        ELSE IF /\ res'.op = "append_event" /\ res'.outcome = "ok"
                /\ UpdatesSession(EventDeltas(res'.ev))
             THEN [calls[p] EXCEPT !.seen = @ \cup {res'.ev.id}]
             ELSE calls[p]]

NextWriters ==
    \/ /\ now = 0
       /\ CreateSession("h1", "a1", "u1", "s1", EmptyDict) /\ ObserveWriters
    \/ /\ txn["p2"].pc = "idle"
       /\ GetSession("h2", "a1", "u1", "s1", NoConfig) /\ ObserveWriters
    \/ \E p \in Procs, ev \in Persistable(UniqueEventId, {0}, {EmptyDict, AllKeys(2)}) :
            AppendBegin(p, HandleOf(p), ev) /\ Within(MaxTime) /\ ObserveWriters
    \/ \E p \in Procs : AppendRead(p) /\ ObserveWriters
    \/ \E p \in Procs : AppendCommit(p) /\ ObserveWriters

SpecWriters == Init /\ [][NextWriters]_vars

\* One session with state and events, and calls that name it with every
\* application and user: get_session, list_events, delete_session, and
\* append_event with a Session object the caller filled in.
NextOwner ==
    \/ /\ now = 0
       /\ CreateSession("h1", "a1", "u1", "s1", AllKeys(1)) /\ UNCHANGED calls
    \/ \E ev \in Persistable(NextEventId, {0}, {AllKeys(2)}) :
            /\ Len(events) < 2
            /\ AppendBegin("p1", "h1", ev) /\ Within(MaxTime) /\ UNCHANGED calls
    \/ \E a \in Apps, u \in Users :
            Quiescent /\ GetSession("h3", a, u, "s1", NoConfig) /\ UNCHANGED calls
    \/ \E a \in Apps, u \in Users :
            Quiescent /\ ListEvents(a, u, "s1") /\ UNCHANGED calls
    \/ \E a \in Apps, u \in Users :
            Quiescent /\ DeleteSession(a, u, "s1") /\ UNCHANGED calls
    \/ \E a \in Apps, u \in Users :
            Quiescent /\ MakeSession("h2", a, u, "s1") /\ UNCHANGED calls
    \/ \E ev \in Persistable(NextEventId, {0}, {AllKeys(2)}) :
            AppendBegin("p1", "h2", ev) /\ Within(MaxTime) /\ UNCHANGED calls
    \/ AppendRead("p1") /\ UNCHANGED calls
    \/ AppendCommit("p1") /\ UNCHANGED calls

SpecOwner == Init /\ [][NextOwner]_vars

\* Sessions created with explicit ids by callers of every application and
\* user, each id by its own Session object, and events appended to them.
HandleFor(sid) == IF sid = "s1" THEN "h1" ELSE "h2"

NextIds ==
    \/ \E a \in Apps, u \in Users, sid \in SessionIds, st \in {EmptyDict, AllKeys(1)} :
            /\ Quiescent /\ ~handles[HandleFor(sid)].valid
            /\ CreateSession(HandleFor(sid), a, u, sid, st)
            /\ Within(MaxTimeTwo) /\ UNCHANGED calls
    \/ \E a \in Apps, u \in Users, sid \in SessionIds, st \in {EmptyDict, AllKeys(1)} :
            /\ Quiescent /\ handles[HandleFor(sid)].valid
            /\ CreateSession("h3", a, u, sid, st)
            /\ Within(MaxTimeTwo) /\ UNCHANGED calls
    \/ \E h \in {"h1", "h2"}, ev \in Persistable(NextEventId, {0}, {AllKeys(2)}) :
            /\ events = <<>>
            /\ AppendBegin("p1", h, ev) /\ Within(MaxTimeTwo) /\ UNCHANGED calls
    \/ AppendRead("p1") /\ UNCHANGED calls
    \/ AppendCommit("p1") /\ UNCHANGED calls

SpecIds == Init /\ [][NextIds]_vars

----------------------------------------------------------------------------
(* Properties                                                              *)

AppendFailures == {"not_found", "stale", "write_conflict", "duplicate"}

\* A state map without its temporary-prefixed keys.
WithoutTemp(state) ==
    [k \in {f \in DOMAIN state : ~startswith(f, TEMP_PREFIX)} |-> state[k]]

\* C1 (SpecConc): two append_event calls with persistable events on the
\* same session, made with two Session objects that hold the same
\* last_update_time taken before either call: exactly one commits, and the
\* other fails with a conflict (the stale-write error, or the store's write
\* conflict when the two transactions overlap).
C1_ExactlyOneCommits ==
    \A p, q \in Procs :
        (/\ p # q
         /\ calls[p].outcome # "none" /\ calls[q].outcome # "none"
         /\ calls[p].session_id = calls[q].session_id
         /\ calls[p].h # calls[q].h
         /\ calls[p].lut0 = calls[q].lut0)
        => \/ calls[p].outcome = "ok" /\ calls[q].outcome \in {"stale", "write_conflict"}
           \/ calls[q].outcome = "ok" /\ calls[p].outcome \in {"stale", "write_conflict"}

\* C2 (Spec): when append_event reads a session document whose update time
\* is strictly newer than the caller's last_update_time, the call fails as
\* stale and the four collections and the Session objects are unchanged.
C2_StaleAppendRejected ==
    [][\A p \in Procs :
        (/\ txn[p].pc = "begun" /\ txn'[p].pc # "begun"
         /\ SessionFound(handles[txn[p].h].app_name, handles[txn[p].h].user_id,
                         handles[txn[p].h].id)
         /\ sessions[handles[txn[p].h].id].update_time
                > handles[txn[p].h].last_update_time)
        => /\ res'.op = "append_event" /\ res'.outcome = "stale"
           /\ txn'[p].pc = "idle"
           /\ UNCHANGED <<sessions, events, app_states, user_states, handles>>]_vars

C2_Witness ==
    /\ res.op = "append_event" /\ res.outcome = "stale"
    /\ res.ev.state_delta = AllKeys(2)

\* C3 (SpecTwo): an append_event call that fails (session not found, stale,
\* write conflict, event id already in the events collection) changes none
\* of the four collections and no Session object; and a call whose event id
\* is already in the collection does fail.
C3_AppendAllOrNothing ==
    [][/\ (res'.op = "append_event" /\ res'.outcome \in AppendFailures)
            => UNCHANGED <<sessions, events, app_states, user_states, handles>>
       /\ \A p \in Procs :
            (/\ txn[p].pc = "read" /\ txn'[p].pc = "idle"
             /\ \E i \in DOMAIN events : events[i].id = txn[p].ev.id)
            => /\ res'.outcome \in AppendFailures
               /\ UNCHANGED <<sessions, events, app_states, user_states, handles>>]_vars

C3_Witness ==
    /\ res.op = "append_event" /\ res.outcome = "duplicate"
    /\ res.ev.state_delta = AllKeys(2)
    /\ \E i \in DOMAIN events :
            events[i].id = res.ev.id /\ events[i].session_id # res.session_id

\* C4 (Spec): create_session with the id of a session that exists for the
\* same app and user fails with the conflict error and changes none of the
\* four collections.
C4_DuplicateCreateRejected ==
    [][(/\ res'.op = "create_session"
        /\ SessionFound(res'.app_name, res'.user_id, res'.session_id))
       => /\ res'.outcome = "conflict"
          /\ UNCHANGED <<sessions, events, app_states, user_states>>]_vars

C4_Witness ==
    /\ res.op = "create_session" /\ res.outcome = "conflict"
    /\ res.state = AllKeys(1)
    /\ events # <<>>

C6_MergedStateIsInitialState ==
    [][\A a \in Apps, u \in Users, sid \in SessionIds :
        (/\ res'.op = "create_session" /\ res'.outcome = "ok"
         /\ res'.app_name = a /\ res'.user_id = u /\ res'.session_id = sid)
        => get_session(a, u, sid, NoConfig)'.state = WithoutTemp(res'.state)]_vars

\* C6 as amended (SpecTwo): get_session right after create_session returns
\* the initial state without its temporary-prefixed keys, laid over the
\* application-prefixed and user-prefixed keys that the application and the
\* user already had.
C6_MergedStateIsInitialOverShared ==
    [][\A a \in Apps, u \in Users, sid \in SessionIds :
        (/\ res'.op = "create_session" /\ res'.outcome = "ok"
         /\ res'.app_name = a /\ res'.user_id = u /\ res'.session_id = sid)
        => get_session(a, u, sid, NoConfig)'.state =
              DictUpdate(_merge_state(AppState(a), UserState(a, u), EmptyDict),
                         WithoutTemp(res'.state))]_vars

C6_Witness ==
    /\ res.op = "create_session" /\ res.outcome = "ok"
    /\ res.state = AllKeys(1)
    /\ res.session_id = "s2" /\ res.user_id = "u2"
    /\ "s1" \in DOMAIN sessions
    /\ <<"k">> \in DOMAIN AppState("a1")

\* C7 (SpecTwo): when append_event commits a delta with an application-
\* prefixed key, get_session of every session of that application returns
\* the key with the new value; and the value of a key of the application
\* state changes only by a committed create_session or append_event whose
\* state carries that key.
C7_AppDeltaSeenByAllSessions ==
    [][/\ \A a \in Apps, u \in Users, sid \in SessionIds, f \in FlatKeys :
            (/\ res'.op = "append_event" /\ res'.outcome = "ok"
             /\ res'.app_name = a
             /\ startswith(f, APP_PREFIX) /\ f \in DOMAIN res'.ev.state_delta
             /\ SessionFound(a, u, sid)')
            => /\ f \in DOMAIN get_session(a, u, sid, NoConfig)'.state
               /\ get_session(a, u, sid, NoConfig)'.state[f] = res'.ev.state_delta[f]
       /\ \A a \in Apps, n \in Names :
            (a \in DOMAIN app_states /\ <<n>> \in DOMAIN app_states[a])
            => /\ a \in DOMAIN app_states' /\ <<n>> \in DOMAIN app_states'[a]
               /\ app_states'[a][<<n>>] # app_states[a][<<n>>]
                    => /\ res'.outcome = "ok" /\ res'.app_name = a
                       /\ \/ /\ res'.op = "append_event"
                             /\ <<APP_PREFIX, n>> \in DOMAIN res'.ev.state_delta
                          \/ /\ res'.op = "create_session"
                             /\ <<APP_PREFIX, n>> \in DOMAIN res'.state]_vars

C7_Witness ==
    /\ res.op = "append_event" /\ res.outcome = "ok"
    /\ res.ev.state_delta = AppOnly(2)
    /\ res.session_id = "s1"
    /\ SessionFound("a1", "u2", "s2")
    /\ get_session("a1", "u2", "s2", NoConfig).state[<<APP_PREFIX, "k">>] = 2

\* C8 (Spec): after delete_session the session is in no list_sessions
\* result, get_session returns nothing and list_events is empty; and
\* delete_session of a session that does not exist changes nothing.
C8_DeleteRemovesSessionAndEvents ==
    [][\A a \in Apps, u \in Users, sid \in SessionIds :
        (/\ res'.op = "delete_session"
         /\ res'.app_name = a /\ res'.user_id = u /\ res'.session_id = sid)
        => /\ \A s \in list_sessions(a, u)' : s.id # sid
           /\ ~get_session(a, u, sid, NoConfig)'.found
           /\ list_events(a, u, sid)' = <<>>
           /\ ~SessionFound(a, u, sid)
                => UNCHANGED <<sessions, events, app_states, user_states, handles>>]_vars

C8_Witness ==
    /\ res.op = "delete_session" /\ res.outcome = "ok"
    /\ res.n > 0

\* Timestamps of a list of events never decrease.
Ascending(evs) ==
    \A i, j \in DOMAIN evs : i < j => evs[i].timestamp <= evs[j].timestamp

\* The event documents of a session.
DocsOf(a, u, sid) == {i \in DOMAIN events : EventMatches(events[i], a, u, sid)}

\* evs lists each of the documents numbered in docs once, and nothing else.
ListsExactly(evs, docs) ==
    /\ Len(evs) = Cardinality(docs)
    /\ \A i \in docs : \E j \in DOMAIN evs : evs[j] = _event_doc_to_obj(events[i])
    /\ \A j \in DOMAIN evs : \E i \in docs : evs[j] = _event_doc_to_obj(events[i])

\* C9 (SpecEvents): list_events returns exactly the events persisted for
\* the session, in ascending order of timestamp.
C9_ListEventsAscending ==
    res.op = "list_events"
    => LET evs == list_events(res.app_name, res.user_id, res.session_id)
       IN  /\ Ascending(evs)
           /\ ListsExactly(evs, DocsOf(res.app_name, res.user_id, res.session_id))

C9_Witness ==
    /\ res.op = "list_events"
    /\ Len(list_events(res.app_name, res.user_id, res.session_id)) >= 2
    /\ \E i, j \in DocsOf(res.app_name, res.user_id, res.session_id) :
            i < j /\ events[i].timestamp > events[j].timestamp
    /\ \E i \in DOMAIN events : events[i].session_id # res.session_id

\* C10 (SpecEvents): get_session with num_recent_events = N > 0 and no
\* timestamp filter returns min(N, k) of the k events of the session, none
\* older than an event it leaves out, in ascending order of timestamp.
C10_RecentEventsChronological ==
    (/\ res.op = "get_session" /\ res.outcome = "ok"
     /\ res.config.num_recent_events > 0 /\ ~res.config.has_after)
    => LET evs == get_session(res.app_name, res.user_id, res.session_id, res.config).events
           docs == DocsOf(res.app_name, res.user_id, res.session_id)
           N == res.config.num_recent_events
       IN  /\ Len(evs) = IF N < Cardinality(docs) THEN N ELSE Cardinality(docs)
           /\ Ascending(evs)
           /\ \E kept \in SUBSET docs :
                /\ ListsExactly(evs, kept)
                /\ \A i \in docs \ kept, j \in kept :
                        events[i].timestamp <= events[j].timestamp

C10_Witness ==
    /\ res.op = "get_session" /\ res.outcome = "ok"
    /\ res.config.num_recent_events = 2
    /\ Cardinality(DocsOf(res.app_name, res.user_id, res.session_id)) = 3
    /\ \E i, j \in DocsOf(res.app_name, res.user_id, res.session_id) :
            i < j /\ events[i].timestamp > events[j].timestamp

\* The timestamp a caller reads on the event made from a document.
ReturnedTimestamp(doc) == _event_doc_to_obj(doc).timestamp

\* C11 (SpecEvents): get_session with after_timestamp T and no
\* num_recent_events returns exactly the events of the session whose
\* timestamp is greater than T.
C11_EventsAfterTimestamp ==
    (/\ res.op = "get_session" /\ res.outcome = "ok"
     /\ res.config.has_after /\ res.config.num_recent_events = 0)
    => LET evs == get_session(res.app_name, res.user_id, res.session_id, res.config).events
           docs == DocsOf(res.app_name, res.user_id, res.session_id)
       IN  ListsExactly(evs, {i \in docs :
                ReturnedTimestamp(events[i]) > res.config.after_timestamp})

C13_UpdateTimeNeverDecreases ==
    [][\A sid \in SessionIds :
        (sid \in DOMAIN sessions /\ sid \in DOMAIN sessions')
        => sessions'[sid].update_time >= sessions[sid].update_time]_vars

\* C14 (SpecRead): the merged state and the events that get_session returns
\* are those of one state of the store between the start and the end of
\* the call.
C14_GetSessionReadsOneState ==
    [][\A p \in Procs :
        (txn[p].pc = "found" /\ txn'[p].pc = "idle")
        => [found |-> TRUE, state |-> res'.state, events |-> res'.events]
                \in calls[p].seen]_vars

\* A session that was active and has been deleted: a caller still holds a
\* Session object for it, and the sessions collection has no document.
Deleted(sid) ==
    /\ \E h \in Handles : handles[h].valid /\ handles[h].id = sid
    /\ sid \notin DOMAIN sessions

\* C15 (Spec): once a session has been deleted, no operation makes a
\* session with its id active again or adds events under it.
C15_DeletedIsTerminal ==
    [][\A sid \in SessionIds :
        Deleted(sid)
        => /\ sid \notin DOMAIN sessions'
           /\ \A i \in DOMAIN events' : events'[i].session_id # sid]_vars

\* C16 (Spec): append_event with a persistable event on a Session object
\* whose session document is missing fails as not found, and leaves the
\* four collections and the Session objects unchanged.
C16_AppendToMissingSession ==
    [][/\ \A p \in Procs :
            (/\ txn[p].pc = "begun" /\ txn'[p].pc # "begun"
             /\ ~SessionFound(handles[txn[p].h].app_name, handles[txn[p].h].user_id,
                              handles[txn[p].h].id))
            => /\ res'.op = "append_event" /\ res'.outcome = "not_found"
               /\ txn'[p].pc = "idle"
       /\ (res'.op = "append_event" /\ res'.outcome = "not_found")
            => UNCHANGED <<sessions, events, app_states, user_states, handles>>]_vars

C16_Witness ==
    /\ res.op = "append_event" /\ res.outcome = "not_found"
    /\ res.ev.state_delta = AllKeys(2)
    /\ Deleted(res.session_id)
    /\ app_states # EmptyDict

\* C17 (Spec): when an append_event call has committed, the caller's
\* Session object passes the staleness check against the session document
\* as the commit left it, whether or not the event carried a state delta.
C17_HandleValidAfterCommit ==
    (res.op = "append_event" /\ res.outcome = "ok")
    => /\ SessionFound(res.app_name, res.user_id, res.session_id)
       /\ ~IsStale(UtcTimestamp(sessions[res.session_id].update_time),
                   handles[res.h].last_update_time)

C17_Witness ==
    /\ res.op = "append_event" /\ res.outcome = "ok"
    /\ res.ev.state_delta = AllKeys(2)
    /\ Len(events) = 2
    /\ events[1].actions = EmptyDict
    /\ sessions[res.session_id].update_time > 0

\* C18 (SpecContent): list_events called after an append_event that
\* committed returns the appended event with the content it was appended
\* with, inline binary data included.
C18_BinaryRoundTrip ==
    [][(/\ res.op = "append_event" /\ res.outcome = "ok"
        /\ res'.op = "list_events"
        /\ res'.app_name = res.app_name /\ res'.user_id = res.user_id
        /\ res'.session_id = res.session_id)
       => \A a \in Apps, u \in Users, sid \in SessionIds :
            (a = res.app_name /\ u = res.user_id /\ sid = res.session_id)
            => \E i \in DOMAIN list_events(a, u, sid)' :
                    /\ list_events(a, u, sid)'[i].id = res.ev.id
                    /\ list_events(a, u, sid)'[i].content = res.ev.content]_vars

\* C19 (SpecList): list_sessions returns one summary for each session of
\* the application and user asked for and no other, with the session's id,
\* application, user and stored update time, and with an empty state.
C19_ListSessionsSummaries ==
    res.op = "list_sessions"
    => list_sessions(res.app_name, res.user_id) =
        {[app_name |-> res.app_name, user_id |-> res.user_id, id |-> sid,
          state |-> EmptyDict,
          last_update_time |-> UtcTimestamp(sessions[sid].update_time)] :
            sid \in {x \in DOMAIN sessions :
                        /\ sessions[x].app_name = res.app_name
                        /\ sessions[x].user_id = res.user_id}}

\* C20 (Spec): an event document stays as it was written until
\* delete_session removes its session; an event document appears only by an
\* append_event that commits it; and no event document is partial.
C20_EventsImmutable ==
    [][/\ \A i \in DOMAIN events :
            IF \E j \in DOMAIN events' : events'[j].id = events[i].id
            THEN \E j \in DOMAIN events' : events'[j] = events[i]
            ELSE /\ res'.op = "delete_session"
                 /\ res'.session_id = events[i].session_id
                 /\ res'.app_name = events[i].app_name
                 /\ res'.user_id = events[i].user_id
       /\ \A j \in DOMAIN events' :
            /\ ~events'[j].partial
            /\ (\A i \in DOMAIN events : events[i].id # events'[j].id)
                => /\ res'.op = "append_event" /\ res'.outcome = "ok"
                   /\ res'.ev.id = events'[j].id]_vars

C20_Witness ==
    /\ res.op = "get_session" /\ res.outcome = "ok"
    /\ Len(events) = 2
    /\ \E i \in DOMAIN events : events[i].actions = AllKeys(2)

\* C21 (SpecList): delete_session changes neither the application states
\* nor the user states, and the sessions that remain keep their merged
\* state; and no step of any operation removes an application-state or a
\* user-state document.
C21_DeleteKeepsSharedState ==
    [][/\ res'.op = "delete_session"
            => /\ UNCHANGED <<app_states, user_states>>
               /\ \A a \in Apps, u \in Users, sid \in SessionIds :
                    SessionFound(a, u, sid)'
                    => /\ SessionFound(a, u, sid)
                       /\ get_session(a, u, sid, NoConfig)'.state
                            = get_session(a, u, sid, NoConfig).state
       /\ DOMAIN app_states \subseteq DOMAIN app_states'
       /\ DOMAIN user_states \subseteq DOMAIN user_states']_vars

C21_Witness ==
    /\ res.op = "delete_session" /\ res.outcome = "ok" /\ res.n > 0
    /\ SessionFound("a1", "u1", "s2")
    /\ get_session("a1", "u1", "s2", NoConfig).state[<<APP_PREFIX, "k">>] = 2
    /\ get_session("a1", "u1", "s2", NoConfig).state[<<USER_PREFIX, "k">>] = 2

\* The tier a key of a flat state map belongs to by its first prefix, and
\* the key it is kept under in that tier.
Tier(f) ==
    IF f[1] = APP_PREFIX THEN "app"
    ELSE IF f[1] = USER_PREFIX THEN "user"
    ELSE IF f[1] = TEMP_PREFIX THEN "temp" ELSE "session"

KeptAs(f) == IF Tier(f) \in {"app", "user"} THEN Tail(f) ELSE f

\* The flat map given to the call that res records.
GivenState(r) == IF r.op = "create_session" THEN r.state ELSE r.ev.state_delta

\* C22 (SpecSplit): for the flat state map of a create_session or an
\* append_event that commits, _extract_state_delta puts every key that has
\* no temporary prefix in the delta of its tier and in no other, under the
\* key without the application or user prefix, with its value, and puts
\* nothing else in a delta; the commit adds to the session state, the
\* application state and the user state the keys of these deltas only, so
\* a key with the temporary prefix reaches no tier.
C22_SplitPartitions ==
    [][\A a \in Apps, u \in Users, sid \in SessionIds :
        (/\ res'.op \in {"create_session", "append_event"} /\ res'.outcome = "ok"
         /\ res'.app_name = a /\ res'.user_id = u /\ res'.session_id = sid)
        => LET st == GivenState(res')
               d == _extract_state_delta(st)
               before == IF sid \in DOMAIN sessions THEN sessions[sid].state ELSE EmptyDict
           IN  /\ \A tier \in {"app", "user", "session"} :
                    /\ \A f \in DOMAIN st :
                            Tier(f) = tier
                            => KeptAs(f) \in DOMAIN d[tier] /\ d[tier][KeptAs(f)] = st[f]
                    /\ \A k \in DOMAIN d[tier] :
                            \E f \in DOMAIN st : Tier(f) = tier /\ KeptAs(f) = k
               /\ sessions'[sid].state = DictUpdate(before, d.session)
               /\ AppState(a)' = DictUpdate(AppState(a), d.app)
               /\ UserState(a, u)' = DictUpdate(UserState(a, u), d.user)
               /\ \A k \in DOMAIN sessions'[sid].state : Tier(k) # "temp"]_vars

C22_Witness ==
    /\ res.op = "append_event" /\ res.outcome = "ok"
    /\ DOMAIN res.ev.state_delta = SplitKeys
    /\ sessions["s1"].state = [k \in {<<"k">>} |-> 2]
    /\ AppState("a1") = [k \in {<<"k">>, <<TEMP_PREFIX, "k">>} |-> 2]
    /\ UserState("a1", "u1") = [k \in {<<"k">>} |-> 2]

\* The Session objects other than h that callers hold for session sid.
OtherHolders(h, sid) ==
    {g \in Handles \ {h} : handles[g].valid /\ handles[g].id = sid}

\* C23 (SpecZone): when append_event commits an event whose state delta
\* has a key without the temporary prefix, of whatever tier, the session
\* document gets the time of the append as its update time, and every
\* other Session object held for the session fails the staleness check
\* from then on.
C23_DeltaCommitOutdatesOthers ==
    [][\A p \in Procs, sid \in SessionIds :
        (/\ txn[p].pc = "read" /\ txn'[p].pc = "idle"
         /\ res'.outcome = "ok" /\ res'.session_id = sid
         /\ \E f \in DOMAIN txn[p].ev.state_delta : Tier(f) # "temp")
        => /\ sessions'[sid].update_time = TruncMs(txn[p].current_time)
           /\ \A g \in OtherHolders(txn[p].h, sid) :
                IsStale(UtcTimestamp(sessions'[sid].update_time),
                        handles'[g].last_update_time)]_vars

\* The committed events that wrote key f of the given tier for application
\* a (and user u, for the user tier), the last of them being i.
LastWriter(i, f, tier) ==
    /\ f \in DOMAIN events[i].actions /\ Tier(f) = tier
    /\ \A j \in DOMAIN events :
            (/\ j > i /\ events[j].app_name = events[i].app_name
             /\ (tier = "user" => events[j].user_id = events[i].user_id))
            => f \notin DOMAIN events[j].actions

\* The application state and the user state hold, for every key of theirs
\* that committed events wrote, the value of the last event that wrote it.
SharedTiersHoldLastWrites ==
    \A i \in DOMAIN events, f \in SplitKeys \cup DOMAIN BothOther(0) :
        /\ LastWriter(i, f, "app")
            => /\ KeptAs(f) \in DOMAIN AppState(events[i].app_name)
               /\ AppState(events[i].app_name)[KeptAs(f)] = events[i].actions[f]
        /\ LastWriter(i, f, "user")
            => /\ KeptAs(f) \in DOMAIN UserState(events[i].app_name, events[i].user_id)
               /\ UserState(events[i].app_name, events[i].user_id)[KeptAs(f)]
                    = events[i].actions[f]

C25_NoOrphanEvents ==
    \A i \in DOMAIN events :
        SessionFound(events[i].app_name, events[i].user_id, events[i].session_id)

\* C26 (SpecWriters): an append_event call commits only when no other
\* writer has committed an event with a state delta to the session since
\* the caller's Session object was returned or last refreshed.
C26_CommitsOnlyWhenCurrent ==
    [][\A p \in Procs :
        (/\ txn[p].pc = "read" /\ txn'[p].pc = "idle"
         /\ res'.op = "append_event" /\ res'.outcome = "ok")
        => calls[p].seen = {}]_vars

\* C27 (SpecZone): the Session object that create_session or get_session
\* returns passes the staleness check of append_event against the session
\* document it was made from; and a Session object as get_session made it
\* fails the check once another caller's event with a state delta is
\* committed.
C27_ReturnedHandleIsCurrent ==
    [][\A sid \in SessionIds :
        /\ (/\ res'.op \in {"create_session", "get_session"} /\ res'.outcome = "ok"
            /\ res'.session_id = sid)
            => ~IsStale(UtcTimestamp(sessions'[sid].update_time),
                        handles'[res'.h].last_update_time)
        /\ \A p \in Procs :
            (/\ txn[p].pc = "read" /\ txn'[p].pc = "idle"
             /\ res'.outcome = "ok" /\ res'.session_id = sid
             /\ UpdatesSession(EventDeltas(txn[p].ev)))
            => \A g \in OtherHolders(txn[p].h, sid) :
                    handles[g] = _session_doc_to_obj(sid)
                    => IsStale(UtcTimestamp(sessions'[sid].update_time),
                               handles'[g].last_update_time)]_vars

\* Session sid exists and was created under another application or user
\* than a and u.
OwnedByAnother(a, u, sid) ==
    /\ sid \in DOMAIN sessions
    /\ sessions[sid].app_name # a \/ sessions[sid].user_id # u

\* C28 (SpecOwner): a call that names an existing session by its id with
\* another application or user than the session was created under leaves
\* the session document and the events alone: get_session returns
\* nothing, list_events returns no event, append_event fails as not found
\* and writes nothing, and delete_session deletes nothing.
C28_OwnerIsolation ==
    [][\A a \in Apps, u \in Users, sid \in SessionIds :
        (/\ res'.app_name = a /\ res'.user_id = u /\ res'.session_id = sid
         /\ OwnedByAnother(a, u, sid))
        => /\ res'.op = "get_session"
                => res'.outcome = "absent" /\ ~get_session(a, u, sid, NoConfig).found
           /\ res'.op = "list_events" => list_events(a, u, sid) = <<>>
           /\ (res'.op = "append_event" /\ res'.outcome \notin {"begun", "skipped"})
                => res'.outcome = "not_found"
           /\ res'.op = "delete_session" => res'.n = 0
           /\ res'.op \in {"get_session", "list_events", "append_event", "delete_session"}
                => UNCHANGED <<sessions, events, app_states, user_states>>]_vars

C28_Witness ==
    /\ res.op = "append_event" /\ res.outcome = "not_found"
    /\ res.session_id = "s1" /\ res.app_name = "a1" /\ res.user_id = "u2"
    /\ OwnedByAnother("a1", "u2", "s1")
    /\ Len(list_events("a1", "u1", "s1")) = 2

\* C29 (SpecIds): create_session with the id of a session that exists
\* under another application or user fails with the conflict error and
\* changes none of the four collections; and the session document of an
\* id keeps the application and user it was created under.
C29_SessionIdsUniqueInStore ==
    [][/\ \A a \in Apps, u \in Users, sid \in SessionIds :
            (/\ res'.op = "create_session"
             /\ res'.app_name = a /\ res'.user_id = u /\ res'.session_id = sid
             /\ OwnedByAnother(a, u, sid))
            => /\ res'.outcome = "conflict"
               /\ UNCHANGED <<sessions, events, app_states, user_states>>
       /\ \A sid \in DOMAIN sessions \cap DOMAIN sessions' :
            /\ sessions'[sid].app_name = sessions[sid].app_name
            /\ sessions'[sid].user_id = sessions[sid].user_id]_vars

C29_Witness ==
    /\ res.op = "create_session" /\ res.outcome = "conflict"
    /\ res.state = AllKeys(1)
    /\ OwnedByAnother(res.app_name, res.user_id, res.session_id)
    /\ res.app_name \notin DOMAIN app_states
    /\ events # <<>>

\* Key f is in both maps with one value, or in neither.
SameAt(m, n, f) ==
    /\ f \in DOMAIN m <=> f \in DOMAIN n
    /\ f \in DOMAIN m => m[f] = n[f]

\* C30 (SpecIds): when append_event commits on a session, the merged state
\* that get_session returns for any other session keeps its session keys;
\* it keeps its user-prefixed keys unless the other session has the same
\* application and user, and its application-prefixed keys unless it has
\* the same application.
C30_DeltaStaysInItsTier ==
    [][\A a, b \in Apps, u, v \in Users, sid, other \in SessionIds :
        (/\ res'.op = "append_event" /\ res'.outcome = "ok"
         /\ res'.app_name = a /\ res'.user_id = u /\ res'.session_id = sid
         /\ other # sid /\ SessionFound(b, v, other))
        => /\ SessionFound(b, v, other)'
           /\ \A f \in FlatKeys :
                (\/ Tier(f) \in {"session", "temp"}
                 \/ Tier(f) = "user" /\ (b # a \/ v # u)
                 \/ Tier(f) = "app" /\ b # a)
                => SameAt(get_session(b, v, other, NoConfig).state,
                          get_session(b, v, other, NoConfig)'.state, f)]_vars

C30_Witness ==
    /\ res.op = "append_event" /\ res.outcome = "ok"
    /\ res.session_id = "s1" /\ res.app_name = "a1" /\ res.user_id = "u1"
    /\ res.ev.state_delta = AllKeys(2)
    /\ SessionFound("a1", "u2", "s2")
    /\ get_session("a1", "u2", "s2", NoConfig).state =
            [f \in FlatKeys \ {<<TEMP_PREFIX, "k">>} |->
                IF f = <<APP_PREFIX, "k">> THEN 2 ELSE 1]

====
